---- MODULE Spec2Model ----
(***************************************************************************)
(* EIP-712 signing SDK: the single-sign and multi-sign strategies, their   *)
(* verification routines, and the wallet registries that collect           *)
(* signatures from several wallets.                                        *)
(*                                                                         *)
(* Cryptography is abstract.  A signature is the pair (account that made   *)
(* it, message it was made over) or a malformed encoding; typed-data       *)
(* recovery returns the signing account's checksummed address when the     *)
(* message matches, an address nobody holds when it does not, and throws   *)
(* on a malformed encoding.  Addresses carry their letter case, so the     *)
(* case-insensitive comparison of the code is computed, not assumed.       *)
(*                                                                         *)
(* The specifications share the variables, each leaving the other          *)
(* components at their constructed state:                                  *)
(*   Spec        MultiSignStrategy.signMessage and verification of what it  *)
(*               returned;                                                 *)
(*   SpecVerify  verifySignature of both strategies on any signature       *)
(*               result;                                                   *)
(*   SpecWallet  the wallet registries (wagmi strategy, manager, hook) and *)
(*               collectSignatures, one step per await;                    *)
(*   SpecNonce   the NonceManager's operations with a clock that advances  *)
(*               between calls;                                            *)
(*   SpecFactory the MessageFactory building and validating messages over  *)
(*               its DomainConfig and NonceManager;                        *)
(*   SpecDomain  the DomainConfig, the objects getDomain() hands out and   *)
(*               the messages built over it;                               *)
(*   SpecMetaMask the MetaMaskProvider over a wallet backend that answers  *)
(*               or rejects each request.                                  *)
(***************************************************************************)
EXTENDS Integers, Sequences, FiniteSets, TLC

VARIABLES
    \* strategies/MultiSignStrategy.ts, strategies/SingleSignStrategy.ts
    providers,          \* MultiSignStrategy.walletProviders: the account each provider holds
    config,             \* MultiSignStrategy.config: [threshold, signers]
    call,               \* the strategy call that last completed: "idle", "verify", "verifySingle", "sign"
    arg,                \* its argument (a SignatureResult, for the verify calls)
    ret,                \* its outcome: [thrown, value]
    outcomes,           \* how each provider behaved during the last signMessage
    signRet,            \* outcome of signMessage: [thrown, value (aggregate), error]
    trace,              \* the wallet provider's methods SingleSignStrategy.signMessage called, in order
    \* walletexten/signing.ts, walletexten/mixwallet.ts, walletexten/hooks
    variant,            \* which registry class: "wagmi", "manager" or "hook"
    threshold,          \* its threshold
    connectedWallets,   \* Map<walletId, wallet>, as the sequence of its keys in insertion order
    pc,                 \* position of collectSignatures: "idle", "getAddress", "sign", "done"
    idx,                \* position of the for-of iteration over connectedWallets
    signatures,         \* collectSignatures' local list of {walletId, address, signature}
    errors,             \* the hook's local list of {walletId, error}
    calls,              \* every wallet method invoked by the running collectSignatures, in order
    result,             \* outcome of collectSignatures: [kind, value, error]
    \* core/DomainConfig.ts, core/MessageFactory.ts
    nonceState,         \* NonceManager.nonceState: [current, used, lastUpdated]
    maxAge,             \* NonceManager.maxAge, in milliseconds
    now,                \* Date.now(), in milliseconds
    domain,             \* DomainConfig.domain: [name, version, chainId, verifyingContract]
    lastOp,             \* the NonceManager or MessageFactory call that last completed
    history,            \* nonces handed out: [base, issued, ever]
    constructed,        \* the domain the DomainConfig was constructed with
    returned,           \* the domain object an earlier getDomain() returned, if the caller kept one
    built,              \* the message an earlier createMessage built, if the caller kept one
    \* utils/wallet.ts
    provider,           \* MetaMaskProvider.provider: window.ethereum, or null
    connection,         \* MetaMaskProvider.connection: <<>> for null, else <<the cached connection>>
    walletOp,           \* the MetaMaskProvider call that last completed, with what the backend replied
    walletLog           \* the MetaMaskProvider calls completed so far: [name, thrown]

strategyVars == <<providers, config, call, arg, ret, outcomes, signRet, trace>>
walletVars == <<variant, threshold, connectedWallets, pc, idx, signatures, errors, calls, result>>
factoryVars == <<nonceState, maxAge, now, domain, lastOp, history>>
domainVars == <<constructed, returned, built>>
metamaskVars == <<provider, connection, walletOp, walletLog>>
vars == <<strategyVars, walletVars, factoryVars, domainVars, metamaskVars>>

----------------------------------------------------------------------------
(* Bounds *)

MaxSigs == 2            \* longest signature list of an aggregate handed to verifySignature
MaxProviders == 2       \* most wallet providers of a MultiSignStrategy
MaxWallets == 3         \* number of wallet ids a registry can hold

Accounts == {1, 2}      \* accounts that wallets hold
TheMessage == "m1"      \* the message being signed or verified
OtherMessage == "m2"    \* a different message
NoMessage == "undefined"

----------------------------------------------------------------------------
(* Addresses, signatures and typed-data recovery *)

Address(a) == [acct |-> a, form |-> "checksum"]
Undefined == [acct |-> 0, form |-> "undefined"]
\* the address recovery yields for a digest the signature was not made over: nobody holds it
UnknownAddress == [acct |-> 0, form |-> "checksum"]

Returns(v) == [thrown |-> FALSE, value |-> v]
Throws == [thrown |-> TRUE, value |-> FALSE]
ThrowsAddr == [thrown |-> TRUE, value |-> Undefined]

\* String.prototype.toLowerCase; on undefined it is a TypeError
toLowerCase(addr) ==
    IF addr.form = "undefined" THEN ThrowsAddr
    ELSE Returns([addr EXCEPT !.form = "lower"])

Sig(a, m) == [by |-> a, over |-> m, wellFormed |-> TRUE]
Malformed == [by |-> 0, over |-> NoMessage, wellFormed |-> FALSE]

\* ethers.verifyTypedData(domain, types, value, signature)
verifyTypedData(message, sig) ==
    IF message = NoMessage \/ ~sig.wellFormed THEN ThrowsAddr
    ELSE IF sig.over = message THEN Returns(Address(sig.by))
    ELSE Returns(UnknownAddress)

\* recoverSigner of both strategies: rethrows as Error("Failed to recover signer")
recoverSigner(message, sig) == verifyTypedData(message, sig)

----------------------------------------------------------------------------
(* SignatureResult: SingleSignature | SignatureAggregate as one record shape *)

SigValues == {Sig(1, TheMessage), Sig(2, TheMessage), Sig(1, OtherMessage), Malformed}
Claimed == {Address(1), [acct |-> 1, form |-> "lower"], [acct |-> 2, form |-> "upper"], Undefined}

SeqsUpTo(S, n) == UNION {[1..k -> S] : k \in 0..n}

SignatureAggregate(sigs, sgnrs, t, m) ==
    [hasSignatures |-> TRUE, signatures |-> sigs, signers |-> sgnrs, threshold |-> t,
     message |-> m, signature |-> Malformed, signer |-> Undefined]

SingleSignature(sig, sgnr, m) ==
    [hasSignatures |-> FALSE, signatures |-> <<>>, signers |-> <<>>, threshold |-> 0,
     message |-> m, signature |-> sig, signer |-> sgnr]

NoResult == SingleSignature(Malformed, Undefined, NoMessage)

Aggregates ==
    {SignatureAggregate([i \in 1..Len(ps) |-> ps[i][1]], [i \in 1..Len(ps) |-> ps[i][2]],
                        t, TheMessage) :
        ps \in SeqsUpTo(SigValues \X Claimed, MaxSigs), t \in 0..(MaxSigs + 1)}

Singles == {SingleSignature(s, a, TheMessage) : <<s, a>> \in SigValues \X Claimed}

----------------------------------------------------------------------------
(* strategies/MultiSignStrategy.ts: verification *)

\* body of the try block of one loop iteration of verifyIndividualSignatures:
\* 1 when the pair counts, 0 when it does not, thrown when recovery or toLowerCase throws
IterationBody(multiSig, i) ==
    LET signature == multiSig.signatures[i]
        expectedSigner == IF i <= Len(multiSig.signers) THEN multiSig.signers[i] ELSE Undefined
        recoveredSigner == recoverSigner(multiSig.message, signature)
    IN  IF recoveredSigner.thrown THEN Throws
        ELSE LET l == toLowerCase(recoveredSigner.value)
                 r == toLowerCase(expectedSigner)
             IN  IF l.thrown \/ r.thrown THEN Throws
                 ELSE Returns(IF l.value = r.value THEN 1 ELSE 0)

\* the loop iteration without its catch: a failing pair aborts the count
IterationWithoutCatch(multiSig, i) == IterationBody(multiSig, i)

\* one loop iteration with its catch { continue }: what it adds to validCount
Iteration(multiSig, i) ==
    LET b == IterationBody(multiSig, i)
    IN  IF b.thrown THEN Returns(0) ELSE b

RECURSIVE CountValid(_, _)
CountValid(multiSig, n) ==
    IF n = 0 THEN Returns(0)
    ELSE LET before == CountValid(multiSig, n - 1)
             this == Iteration(multiSig, n)
         IN  IF before.thrown \/ this.thrown THEN Throws
             ELSE Returns(before.value + this.value)

\* a count of the distinct signers among the pairs that count, not of the positions
CountDistinctSigners(multiSig) ==
    Returns(Cardinality({toLowerCase(multiSig.signers[i]).value :
                            i \in {j \in 1..Len(multiSig.signatures) :
                                       Iteration(multiSig, j).value = 1}}))
verifyIndividualSignatures(multiSig) == CountValid(multiSig, Len(multiSig.signatures))

MultiSignStrategy_verifySignature(signature) ==
    IF ~signature.hasSignatures \/ Len(signature.signatures) = 0 THEN Returns(FALSE)
    ELSE LET body ==
                 IF Len(signature.signatures) < signature.threshold THEN Returns(FALSE)
                 ELSE LET validSignatures == verifyIndividualSignatures(signature)
                      IN  IF validSignatures.thrown THEN Throws
                          ELSE Returns(validSignatures.value >= signature.threshold)
         IN  IF body.thrown THEN Returns(FALSE) ELSE body

----------------------------------------------------------------------------
(* utils/verification.ts: verifyMultiSignature *)

\* one loop iteration: the inner try adds 1 when the recovered address equals the
\* expected signer up to letter case; its catch { continue } adds nothing
UtilityIteration(signature, i) ==
    LET sig == signature.signatures[i]
        expectedSigner ==
            IF i <= Len(signature.signers) THEN signature.signers[i] ELSE Undefined
        recoveredAddress == verifyTypedData(signature.message, sig)
    IN  IF recoveredAddress.thrown THEN 0
        ELSE LET l == toLowerCase(recoveredAddress.value)
                 r == toLowerCase(expectedSigner)
             IN  IF l.thrown \/ r.thrown THEN 0
                 ELSE IF l.value = r.value THEN 1 ELSE 0

RECURSIVE UtilityCount(_, _)
UtilityCount(signature, n) ==
    IF n = 0 THEN 0 ELSE UtilityCount(signature, n - 1) + UtilityIteration(signature, n)

\* the utility with the strategy's first check put in front of it
UtilityRejectingEmpty(signature) ==
    IF ~signature.hasSignatures THEN Throws
    ELSE IF Len(signature.signatures) = 0 THEN Returns(FALSE)
    ELSE Returns(UtilityCount(signature, Len(signature.signatures)) >= signature.threshold)
\* signature.signatures.length of a result without a signatures array throws, and the
\* outer catch throws in its turn
verifyMultiSignature(signature) ==
    IF ~signature.hasSignatures THEN Throws
    ELSE Returns(UtilityCount(signature, Len(signature.signatures)) >= signature.threshold)

----------------------------------------------------------------------------
(* strategies/SingleSignStrategy.ts: verification *)

\* body of the try block of verifySignature
SingleVerifyBody(singleSig) ==
    LET recoveredAddress == recoverSigner(singleSig.message, singleSig.signature)
    IN  IF recoveredAddress.thrown THEN Throws
        ELSE LET l == toLowerCase(recoveredAddress.value)
                 r == toLowerCase(singleSig.signer)
             IN  IF l.thrown \/ r.thrown THEN Throws ELSE Returns(l.value = r.value)

\* verifySignature without its try/catch: a recovery failure reaches the caller
SingleVerifyWithoutCatch(signature) ==
    IF signature.hasSignatures /\ Len(signature.signatures) > 1 THEN Returns(FALSE)
    ELSE SingleVerifyBody(signature)

SingleSignStrategy_verifySignature(signature) ==
    IF signature.hasSignatures /\ Len(signature.signatures) > 1 THEN Returns(FALSE)
    ELSE LET body == SingleVerifyBody(signature)
         IN  IF body.thrown THEN Returns(FALSE) ELSE body

----------------------------------------------------------------------------
(* strategies/MultiSignStrategy.ts: signMessage *)

\* What one provider does when signMessage reaches it: getConnection returns a live
\* connection, none, or throws; connect (called only without a live connection) succeeds
\* or throws; signTypedData returns the account's signature over the message ("sig"), a
\* signature over something else ("wrong"), a malformed string, or throws.
ProviderOutcomes ==
    {o \in [conn : {"live", "none", "throw"}, connect : {"ok", "throw"},
            sign : {"sig", "wrong", "malformed", "throw"}] :
        /\ o.conn = "throw" => o.connect = "ok" /\ o.sign = "sig"
        /\ o.conn = "live" => o.connect = "ok"
        /\ o.connect = "throw" => o.sign = "sig"}

signTypedData(account, message, how) ==
    IF how = "malformed" THEN Malformed
    ELSE IF how = "wrong" THEN Sig(account, OtherMessage)
    ELSE Sig(account, message)

\* the try block of one iteration of the loop: [thrown, cause, signature, signer]
SignIteration(account, o, message) ==
    LET failed(c) == [thrown |-> TRUE, cause |-> c, signature |-> Malformed, signer |-> Undefined]
    IN  IF o.conn = "throw" THEN failed("getConnection")
        ELSE IF o.conn = "none" /\ o.connect = "throw" THEN failed("connect")
        ELSE IF o.sign = "throw" THEN failed("signTypedData")
        ELSE LET signature == signTypedData(account, message, o.sign)
                 signer == recoverSigner(message, signature)
             IN  IF signer.thrown THEN failed("recoverSigner")
                 ELSE [thrown |-> FALSE, cause |-> "none", signature |-> signature,
                       signer |-> signer.value]

\* the loop over walletProviders: the three local lists after the first n providers
RECURSIVE SignLoop(_, _, _, _)
SignLoop(provs, os, message, n) ==
    IF n = 0 THEN [signatures |-> <<>>, signers |-> <<>>, errors |-> <<>>]
    ELSE LET acc == SignLoop(provs, os, message, n - 1)
             it == SignIteration(provs[n], os[n], message)
         IN  IF it.thrown
             THEN [acc EXCEPT !.errors = Append(@, [provider |-> n, cause |-> it.cause])]
             ELSE [acc EXCEPT !.signatures = Append(@, it.signature),
                              !.signers = Append(@, it.signer)]

NoError == [name |-> "none", have |-> 0, need |-> 0, errors |-> <<>>]

\* signMessage without its threshold check: whatever was collected is returned
SignMessageWithoutThresholdCheck(provs, cfg, os, message) ==
    LET l == SignLoop(provs, os, message, Len(provs))
    IN  [thrown |-> FALSE,
         value |-> SignatureAggregate(l.signatures, l.signers, cfg.threshold, message),
         error |-> NoError]

MultiSignStrategy_signMessage(provs, cfg, os, message) ==
    LET l == SignLoop(provs, os, message, Len(provs))
    IN  IF Len(l.signatures) < cfg.threshold
        THEN [thrown |-> TRUE, value |-> NoResult,
              error |-> [name |-> "Insufficient signatures", have |-> Len(l.signatures),
                         need |-> cfg.threshold, errors |-> l.errors]]
        ELSE [thrown |-> FALSE,
              value |-> SignatureAggregate(l.signatures, l.signers, cfg.threshold, message),
              error |-> NoError]

NotSigned == [thrown |-> FALSE, value |-> NoResult, error |-> NoError]

----------------------------------------------------------------------------
(* strategies/SingleSignStrategy.ts: signMessage *)

\* the catch block: throw new Error(`Single sign failed: ${error.message}`)
SingleSignFailed(cause, called) ==
    [thrown |-> TRUE, value |-> NoResult,
     error |-> [name |-> "Single sign failed", have |-> 0, need |-> 0,
                errors |-> <<[provider |-> 1, cause |-> cause]>>],
     calls |-> called]

\* the try block after getConnection and connect, which have made the calls in called
SingleSignAndRecover(account, o, message, called) ==
    IF o.sign = "throw" THEN SingleSignFailed("signTypedData", Append(called, "signTypedData"))
    ELSE LET signature == signTypedData(account, message, o.sign)
             signer == recoverSigner(message, signature)
             all == called \o <<"signTypedData", "recoverSigner">>
         IN  IF signer.thrown THEN SingleSignFailed("recoverSigner", all)
             ELSE [thrown |-> FALSE, value |-> SingleSignature(signature, signer.value, message),
                   error |-> NoError, calls |-> all]

\* signMessage that connects whether or not there is a live connection
SingleSignAlwaysConnecting(account, o, message) ==
    IF o.conn = "throw" THEN SingleSignFailed("getConnection", <<"getConnection">>)
    ELSE IF o.connect = "throw"
         THEN SingleSignFailed("connect", <<"getConnection", "connect">>)
         ELSE SingleSignAndRecover(account, o, message, <<"getConnection", "connect">>)
SingleSignStrategy_signMessage(account, o, message) ==
    IF o.conn = "throw" THEN SingleSignFailed("getConnection", <<"getConnection">>)
    ELSE IF o.conn = "none"
         THEN IF o.connect = "throw"
              THEN SingleSignFailed("connect", <<"getConnection", "connect">>)
              ELSE SingleSignAndRecover(account, o, message, <<"getConnection", "connect">>)
         ELSE SingleSignAndRecover(account, o, message, <<"getConnection">>)

----------------------------------------------------------------------------
(* core/DomainConfig.ts: NonceManager *)

MaxTicks == 2           \* how many times the clock advances
MaxIssued == 2          \* most nonces generated between two settings of the counter

NonceWindow == 1000     \* isNonceValid: how far behind the counter a nonce may be
TickMs == 1000 \div 2                       \* the clock advances in half seconds
DayMs == 24 * 60 * 60 * 1000                \* default maxAge

NonceArgs == 0..2                           \* nonces handed to markNonceUsed, isNonceUsed, validateNonce
InitialNonces == {0, 2}                     \* initialNonce of the constructor and of reset
BackendNonces == {0, NonceWindow + 1}       \* backendNonce of syncWithBackend
MaxAges == {TickMs}                         \* maxAge of the constructor

\* this.nonceState = {current, used: new Set(), lastUpdated: Date.now()}
NewInitialNonceIgnored(initialNonce, t) == [current |-> 0, used |-> {}, lastUpdated |-> t]
NewNonceState(initialNonce, t) == [current |-> initialNonce, used |-> {}, lastUpdated |-> t]

\* private cleanup(): forget the used nonces when the state is older than maxAge
cleanup(s, age, t) ==
    IF t - s.lastUpdated > age THEN [s EXCEPT !.used = {}, !.lastUpdated = t] ELSE s

\* an operation's outcome: the state it leaves and what it returns
Outcome(s, r) == [state |-> s, ret |-> r]

GenerateWithoutIncrement(s, age, t) ==
    LET c == cleanup(s, age, t)
    IN  Outcome([c EXCEPT !.lastUpdated = t], c.current)
generateNonce(s, age, t) ==
    LET c == cleanup(s, age, t)
    IN  Outcome([c EXCEPT !.current = @ + 1, !.lastUpdated = t], c.current)

MarkWithoutAdd(s, age, t, nonce) == Outcome(cleanup(s, age, t), FALSE)
markNonceUsed(s, age, t, nonce) ==
    LET c == cleanup(s, age, t)
    IN  Outcome([c EXCEPT !.used = @ \cup {nonce}], FALSE)

isNonceUsed(s, age, t, nonce) ==
    LET c == cleanup(s, age, t)
    IN  Outcome(c, nonce \in c.used)

ValidWithoutWindow(s, nonce) == TRUE
isNonceValid(s, nonce) == nonce >= s.current - NonceWindow

\* cleanup(); return !this.isNonceUsed(nonce) && this.isNonceValid(nonce)
validateNonce(s, age, t, nonce) ==
    LET c == cleanup(s, age, t)
        u == isNonceUsed(c, age, t, nonce)
    IN  Outcome(u.state, ~u.ret /\ isNonceValid(u.state, nonce))

\* getState(): a copy of the state after cleanup
getState(s, age, t) ==
    LET c == cleanup(s, age, t)
    IN  Outcome(c, c)

reset(s, t, initialNonce) == Outcome(NewNonceState(initialNonce, t), FALSE)

syncWithBackend(s, t, backendNonce) ==
    Outcome([s EXCEPT !.current = backendNonce + 1, !.lastUpdated = t], FALSE)

\* utils/verification.ts validateNonce(nonce, usedNonces) that lets nonce 0 through
UtilityAcceptingZero(nonce, usedNonces) == nonce \notin usedNonces /\ nonce >= 0
\* utils/verification.ts validateNonce(nonce, usedNonces):
\* !usedNonces.has(nonce.toString()) && nonce > 0n
utils_validateNonce(nonce, usedNonces) == nonce \notin usedNonces /\ nonce > 0

----------------------------------------------------------------------------
(* core/DomainConfig.ts: DomainConfig; core/MessageFactory.ts *)

\* an address string, as far as validate() looks at it: its prefix and its length
Contract == [prefix |-> "0x", length |-> 42]

\* new DomainConfig('EngineDex', '1.0', chainId, verifyingContract)
NewDomain(chainId) ==
    [name |-> "EngineDex", version |-> "1.0", chainId |-> chainId, verifyingContract |-> Contract]

\* getDomain(): { ...this.domain }, a new object.  An object is modelled by whether it
\* is the DomainConfig's own domain object (alias) or has storage of its own (value), and
\* by what its holder knows it to contain (seen).
GetDomainByReference(d) == [alias |-> TRUE, value |-> d, seen |-> d]
getDomain(d) == [alias |-> FALSE, value |-> d, seen |-> d]

\* reading a domain object
Deref(obj) == IF obj.alias THEN domain ELSE obj.value

updateChainId(d, chainId) == [d EXCEPT !.chainId = chainId]

updateVerifyingContract(d, verifyingContract) ==
    [d EXCEPT !.verifyingContract = verifyingContract]

DomainConfig_validate(d) ==
    /\ d.chainId > 0
    /\ d.verifyingContract.length = 42
    /\ d.verifyingContract.prefix = "0x"

SignableKinds == {"Deposit", "Withdrawal", "OrderSubmission", "OrderCancellation"}
OperationType == SignableKinds \cup {"GetBalance", "GetOrders", "GetTrades"}
Kinds == OperationType \cup {"Transfer"}        \* "Transfer": a string that is no OperationType

\* an optional argument: nonce?: bigint, deadline?: bigint
Absent == [given |-> FALSE, value |-> 0]
Given(v) == [given |-> TRUE, value |-> v]

DeadlineArgs == {1}                             \* deadlines handed to the factory, in seconds
HourSeconds == 60 * 60                          \* the default deadline is an hour from now
Seconds(t) == t \div 1000                       \* Math.floor(Date.now() / 1000)

\* the numbers that appear in messages of the model, for parsing them back
Numbers ==
    (0 .. (2 + MaxIssued + 1)) \cup {Seconds(k * TickMs) + HourSeconds : k \in 0..(MaxTicks + 1)}

\* bigint.toString() and BigInt(string): decimal numerals
BigInt(str) == CHOOSE n \in Numbers : ToString(n) = str

\* an operation object; the fields its kind does not have are undefined
Operation(kind, nonce, deadline) ==
    [operation |-> kind, nonce |-> nonce, deadline |-> deadline, owner |-> "0xOwner",
     amount |-> 3, token |-> "0xToken", to |-> "0xTo", side |-> "buy", price |-> 2,
     orderType |-> "limit", orderId |-> "order-1"]

EIP712Domain ==
    << <<"name", "string">>, <<"version", "string">>, <<"chainId", "uint256">>,
       <<"verifyingContract", "address">> >>

BaseFields ==
    << <<"operation", "string">>, <<"nonce", "uint256">>, <<"deadline", "uint256">>,
       <<"owner", "address">> >>

\* the primary type's schema, per case of the switch
KindFields(kind) ==
    CASE kind = "Deposit" ->
            BaseFields \o << <<"amount", "uint256">>, <<"token", "address">> >>
      [] kind = "Withdrawal" ->
            BaseFields \o << <<"amount", "uint256">>, <<"token", "address">>,
                             <<"to", "address">> >>
      [] kind = "OrderSubmission" ->
            BaseFields \o << <<"side", "string">>, <<"amount", "uint256">>,
                             <<"price", "uint256">>, <<"token", "address">>,
                             <<"orderType", "string">> >>
      [] kind = "OrderCancellation" ->
            BaseFields \o << <<"orderId", "string">> >>

NoTypes == [t \in {"EIP712Domain"} |-> <<>>]

TypesWithoutDefault(kind) ==
    IF kind \in SignableKinds
    THEN [thrown |-> FALSE, error |-> "none",
          value |-> [t \in {"EIP712Domain", kind} |->
                        IF t = kind THEN KindFields(kind) ELSE EIP712Domain]]
    ELSE [thrown |-> FALSE, error |-> "none",
          value |-> [t \in {"EIP712Domain"} |-> EIP712Domain]]
getTypesForOperation(kind) ==
    IF kind \in SignableKinds
    THEN [thrown |-> FALSE, error |-> "none",
          value |-> [t \in {"EIP712Domain", kind} |->
                        IF t = kind THEN KindFields(kind) ELSE EIP712Domain]]
    ELSE [thrown |-> TRUE, error |-> "Unknown operation type", value |-> NoTypes]

\* the value serializeOperation stores under a field name
FieldValue(op, f) ==
    CASE f = "nonce" -> ToString(op.nonce)
      [] f = "deadline" -> ToString(op.deadline)
      [] f = "amount" -> ToString(op.amount)
      [] f = "price" -> ToString(op.price)
      [] OTHER -> op[f]

KindKeys(kind) ==
    CASE kind = "Deposit" -> {"amount", "token"}
      [] kind = "Withdrawal" -> {"amount", "token", "to"}
      [] kind = "OrderSubmission" -> {"side", "amount", "price", "token", "orderType"}
      [] kind = "OrderCancellation" -> {"orderId"}
      [] OTHER -> {}

SerializeWithoutKindFields(op) ==
    [f \in {"operation", "nonce", "deadline", "owner"} |-> FieldValue(op, f)]
serializeOperation(op) ==
    [f \in {"operation", "nonce", "deadline", "owner"} \cup KindKeys(op.operation) |->
        FieldValue(op, f)]

NoSignable ==
    [domain |-> getDomain(NewDomain(0)), types |-> NoTypes, primaryType |-> "none",
     message |-> [f \in {"operation"} |-> "none"]]

\* createMessage(operation): the types are looked up first, so an unknown kind throws
\* before anything is built
createMessage(d, op) ==
    LET types == getTypesForOperation(op.operation)
    IN  IF types.thrown
        THEN [thrown |-> TRUE, error |-> types.error, value |-> NoSignable]
        ELSE [thrown |-> FALSE, error |-> "none",
              value |-> [domain |-> getDomain(d), types |-> types.value,
                         primaryType |-> op.operation, message |-> serializeOperation(op)]]

\* createDepositMessage, createWithdrawalMessage, createOrderSubmissionMessage,
\* createOrderCancellationMessage: nonce ?? this.nonceManager.generateNonce(),
\* deadline ?? BigInt(Math.floor(Date.now() / 1000) + 3600), then createMessage
CreateAlwaysGenerating(d, s, age, t, kind, nonce, deadline) ==
    LET g == generateNonce(s, age, t)
        n == IF nonce.given THEN nonce.value ELSE g.ret
        dl == IF deadline.given THEN deadline.value ELSE Seconds(t) + HourSeconds
    IN  [state |-> g.state, built |-> createMessage(d, Operation(kind, n, dl))]
createTypedMessage(d, s, age, t, kind, nonce, deadline) ==
    LET g == IF nonce.given THEN Outcome(s, nonce.value) ELSE generateNonce(s, age, t)
        dl == IF deadline.given THEN deadline.value ELSE Seconds(t) + HourSeconds
    IN  [state |-> g.state, built |-> createMessage(d, Operation(kind, g.ret, dl))]

\* validateMessage(message), on a message that has its types, primaryType and message
validateMessage(d, s, age, t, m) ==
    LET fields == m.message
        e1 == IF ~DomainConfig_validate(d) THEN <<"Invalid domain configuration">> ELSE <<>>
        hasNonce == "nonce" \in DOMAIN fields /\ fields.nonce # ""
        v == IF hasNonce THEN validateNonce(s, age, t, BigInt(fields.nonce))
             ELSE Outcome(s, TRUE)
        e2 == IF ~v.ret THEN <<"Invalid or used nonce">> ELSE <<>>
        hasDeadline == "deadline" \in DOMAIN fields /\ fields.deadline # ""
        e3 == IF hasDeadline /\ BigInt(fields.deadline) <= Seconds(t)
              THEN <<"Message deadline has passed">> ELSE <<>>
        errs == e1 \o e2 \o e3
    IN  [state |-> v.state, ret |-> [isValid |-> errs = <<>>, errors |-> errs]]

\* a NonceManager or MessageFactory call and its outcome, as one record shape
NoOp ==
    [name |-> "none", nonce |-> Absent, deadline |-> Absent, kind |-> "none",
     retNonce |-> 0 - 1, retBool |-> FALSE, thrown |-> FALSE, error |-> "none",
     message |-> NoSignable, errors |-> <<>>, chainId |-> 0]

\* nothing handed out yet by a counter that starts at base
NewHistory(base) == [base |-> base, issued |-> {}, ever |-> {}]

----------------------------------------------------------------------------
(* utils/wallet.ts: MetaMaskProvider *)

MaxCalls == 3           \* how many MetaMaskProvider calls a run makes

Ethereum == "window.ethereum"
NoProvider == "null"

\* what the backend answers to one request: a value, or a rejection
Replied(v) == [ok |-> TRUE, value |-> v]
AccountsRejected == [ok |-> FALSE, value |-> <<>>]
ChainRejected == [ok |-> FALSE, value |-> "none"]

\* eth_requestAccounts: the addresses of some accounts, none twice, possibly none at all
AccountsReplies ==
    {AccountsRejected} \cup
    {Replied([i \in 1..Len(as) |-> Address(as[i])]) :
        as \in {q \in SeqsUpTo(Accounts, Cardinality(Accounts)) :
                   \A i, j \in 1..Len(q) : i # j => q[i] # q[j]}}

\* eth_chainId: a hexadecimal string
ChainReplies == {ChainRejected, Replied("0x1"), Replied("0x5")}

\* eth_signTypedData_v4: granted or rejected
SignReplies == {"granted", "rejected"}

\* parseInt(chainId, 16)
parseInt16(str) == CASE str = "0x1" -> 1 [] str = "0x5" -> 5 [] OTHER -> 0

NoWalletError == [name |-> "none", reason |-> "none"]
\* new WalletConnectionError('MetaMask', reason)
WalletConnectionError(reason) == [name |-> "WalletConnectionError", reason |-> reason]
\* the error a rejected request of the backend carries
BackendError == [name |-> "Error", reason |-> "request rejected"]

\* how a MetaMaskProvider method settles: what it throws or returns (a connection as
\* <<>> for null or <<connection>>, a signature) and the cache it leaves
Settled(thrown, error, conn, signature, cache) ==
    [thrown |-> thrown, error |-> error, conn |-> conn, signature |-> signature,
     cache |-> cache]

\* {accounts: accounts.map(address => ({address, chainId})), chainId, isConnected: true}
WalletConnection(accounts, chainId) ==
    [accounts |-> [i \in 1..Len(accounts) |-> [address |-> accounts[i], chainId |-> chainId]],
     chainId |-> chainId, isConnected |-> TRUE]

\* requestAccounts(): [thrown, error, value]
requestAccounts(self, accounts) ==
    IF self.provider = NoProvider
    THEN [thrown |-> TRUE, error |-> WalletConnectionError("Provider not available"),
          value |-> <<>>]
    ELSE IF ~accounts.ok THEN [thrown |-> TRUE, error |-> BackendError, value |-> <<>>]
    ELSE [thrown |-> FALSE, error |-> NoWalletError, value |-> accounts.value]

\* getChainId(): [thrown, error, value]
getChainId(self, chain) ==
    IF self.provider = NoProvider
    THEN [thrown |-> TRUE, error |-> WalletConnectionError("Provider not available"),
          value |-> 0]
    ELSE IF ~chain.ok THEN [thrown |-> TRUE, error |-> BackendError, value |-> 0]
    ELSE [thrown |-> FALSE, error |-> NoWalletError, value |-> parseInt16(chain.value)]

MetaMaskProvider_connect(self, accounts, chain) ==
    IF self.provider = NoProvider
    THEN Settled(TRUE, WalletConnectionError("Provider not available"), <<>>, Malformed,
                 self.connection)
    ELSE LET a == requestAccounts(self, accounts)
             c == getChainId(self, chain)
         IN  IF a.thrown
             THEN Settled(TRUE, WalletConnectionError(a.error.reason), <<>>, Malformed,
                          self.connection)
             ELSE IF c.thrown
             THEN Settled(TRUE, WalletConnectionError(c.error.reason), <<>>, Malformed,
                          self.connection)
             ELSE LET made == WalletConnection(a.value, c.value)
                  IN  Settled(FALSE, NoWalletError, <<made>>, Malformed, <<made>>)

MetaMaskProvider_disconnect(self) ==
    Settled(FALSE, NoWalletError, <<>>, Malformed, <<>>)

\* getConnection() that hands out the cached connection
GetConnectionFromCache(self, accounts, chain) ==
    Settled(FALSE, NoWalletError,
            IF self.provider = NoProvider THEN <<>> ELSE self.connection,
            Malformed, self.connection)
MetaMaskProvider_getConnection(self, accounts, chain) ==
    IF self.provider = NoProvider
    THEN Settled(FALSE, NoWalletError, <<>>, Malformed, self.connection)
    ELSE LET a == requestAccounts(self, accounts)
             c == getChainId(self, chain)
         IN  IF a.thrown \/ c.thrown \/ Len(a.value) = 0
             THEN Settled(FALSE, NoWalletError, <<>>, Malformed, self.connection)
             ELSE Settled(FALSE, NoWalletError, <<WalletConnection(a.value, c.value)>>,
                          Malformed, self.connection)

\* signTypedData(message); the backend signs with the account whose address it is given
MetaMaskProvider_signTypedData(self, accounts, chain, sign, message) ==
    IF self.provider = NoProvider
    THEN Settled(TRUE, WalletConnectionError("Provider not available"), <<>>, Malformed,
                 self.connection)
    ELSE LET got == MetaMaskProvider_getConnection(self, accounts, chain).conn
         IN  IF got = <<>> \/ ~got[1].isConnected
             THEN Settled(TRUE, WalletConnectionError("Not connected"), <<>>, Malformed,
                          self.connection)
             ELSE IF sign = "rejected"
             THEN Settled(TRUE, BackendError, <<>>, Malformed, self.connection)
             ELSE Settled(FALSE, NoWalletError, <<>>,
                          Sig(got[1].accounts[1].address.acct, message), self.connection)

NoWalletOp ==
    [name |-> "none", accounts |-> AccountsRejected, chain |-> ChainRejected,
     sign |-> "rejected", thrown |-> FALSE, error |-> NoWalletError, conn |-> <<>>,
     signature |-> Malformed]

\* a MetaMaskProvider that found no window.ethereum and was never called
MetaMaskIdle ==
    /\ provider = NoProvider
    /\ connection = <<>>
    /\ walletOp = NoWalletOp
    /\ walletLog = <<>>

----------------------------------------------------------------------------
(* The components as constructed *)

\* the core component as constructed with the defaults and never called
FactoryIdle ==
    /\ nonceState = NewNonceState(0, 0)
    /\ maxAge = DayMs
    /\ now = 0
    /\ domain = NewDomain(1)
    /\ lastOp = NoOp
    /\ history = NewHistory(0)

\* the DomainConfig of the tests, nothing asked of it yet
DomainIdle ==
    /\ constructed = NewDomain(1)
    /\ returned = <<>>
    /\ built = <<>>

----------------------------------------------------------------------------
(* The strategies as a state machine *)

Configs == [threshold : 0..MaxProviders, signers : SUBSET {Address(a) : a \in Accounts}]

StrategyIdle ==
    /\ call = "idle"
    /\ arg = NoResult
    /\ ret = Returns(FALSE)
    /\ outcomes = <<>>
    /\ signRet = NotSigned
    /\ trace = <<>>

WalletIdle ==
    /\ variant = "wagmi"
    /\ threshold = 1
    /\ connectedWallets = <<>>
    /\ pc = "idle"
    /\ idx = 0
    /\ signatures = <<>>
    /\ errors = <<>>
    /\ calls = <<>>
    /\ result = [kind |-> "none", value |-> <<>>,
                 error |-> [name |-> "none", required |-> 0, connected |-> 0, walletId |-> 0,
                            causes |-> <<>>]]

\* new MultiSignStrategy(walletProviders, config)
Init ==
    /\ providers \in SeqsUpTo(Accounts, MaxProviders)
    /\ config \in Configs
    /\ StrategyIdle
    /\ WalletIdle
    /\ FactoryIdle
    /\ DomainIdle
    /\ MetaMaskIdle

\* a verifier: new MultiSignStrategy([], config), new SingleSignStrategy(provider)
InitVerify ==
    /\ providers = <<>>
    /\ config \in Configs
    /\ StrategyIdle
    /\ WalletIdle
    /\ FactoryIdle
    /\ DomainIdle
    /\ MetaMaskIdle

\* await strategy.signMessage(message) on the MultiSignStrategy
SignMessage ==
    /\ call = "idle"
    /\ \E os \in [1..Len(providers) -> ProviderOutcomes] :
        /\ outcomes' = os
        /\ signRet' = MultiSignStrategy_signMessage(providers, config, os, TheMessage)
    /\ call' = "sign"
    /\ UNCHANGED <<providers, config, trace, arg, ret, walletVars, factoryVars, domainVars, metamaskVars>>

\* await strategy.verifySignature(result) on what signMessage returned
VerifyReturned ==
    /\ call = "sign"
    /\ ~signRet.thrown
    /\ call' = "verifyReturned"
    /\ arg' = signRet.value
    /\ ret' = MultiSignStrategy_verifySignature(signRet.value)
    /\ UNCHANGED <<providers, config, trace, outcomes, signRet, walletVars, factoryVars, domainVars, metamaskVars>>

\* await multiSignStrategy.verifySignature(signature) on any signature result
VerifyMulti ==
    /\ call = "idle"
    /\ \E signature \in Aggregates \cup Singles :
        /\ arg' = signature
        /\ ret' = MultiSignStrategy_verifySignature(signature)
    /\ call' = "verify"
    /\ UNCHANGED <<providers, config, trace, outcomes, signRet, walletVars, factoryVars, domainVars, metamaskVars>>

\* await singleSignStrategy.verifySignature(signature) on any signature result
VerifySingle ==
    /\ call = "idle"
    /\ \E signature \in Aggregates \cup Singles :
        /\ arg' = signature
        /\ ret' = SingleSignStrategy_verifySignature(signature)
    /\ call' = "verifySingle"
    /\ UNCHANGED <<providers, config, trace, outcomes, signRet, walletVars, factoryVars, domainVars, metamaskVars>>

\* the caller has consumed the outcome
Return ==
    /\ call # "idle"
    /\ call' = "idle"
    /\ arg' = NoResult
    /\ ret' = Returns(FALSE)
    /\ outcomes' = <<>>
    /\ signRet' = NotSigned
    /\ trace' = <<>>
    /\ UNCHANGED <<providers, config, walletVars, factoryVars, domainVars, metamaskVars>>

\* await new SingleSignStrategy(providers[1]).signMessage(message)
SignSingle ==
    /\ call = "idle"
    /\ providers # <<>>
    /\ \E o \in ProviderOutcomes :
        LET r == SingleSignStrategy_signMessage(providers[1], o, TheMessage)
        IN  /\ outcomes' = <<o>>
            /\ signRet' = [thrown |-> r.thrown, value |-> r.value, error |-> r.error]
            /\ trace' = r.calls
    /\ call' = "signSingle"
    /\ UNCHANGED <<providers, config, arg, ret, walletVars, factoryVars, domainVars, metamaskVars>>

\* await singleSignStrategy.verifySignature(result) on what its signMessage returned
VerifySingleReturned ==
    /\ call = "signSingle"
    /\ ~signRet.thrown
    /\ call' = "verifySingleReturned"
    /\ arg' = signRet.value
    /\ ret' = SingleSignStrategy_verifySignature(signRet.value)
    /\ UNCHANGED <<providers, config, trace, outcomes, signRet, walletVars, factoryVars,
                   domainVars, metamaskVars>>

\* await verifyMultiSignature(result) on what MultiSignStrategy.signMessage returned
VerifyUtilityReturned ==
    /\ call = "sign"
    /\ ~signRet.thrown
    /\ call' = "verifyUtilityReturned"
    /\ arg' = signRet.value
    /\ ret' = verifyMultiSignature(signRet.value)
    /\ UNCHANGED <<providers, config, trace, outcomes, signRet, walletVars, factoryVars,
                   domainVars, metamaskVars>>

Next ==
    \/ SignMessage
    \/ VerifyReturned
    \/ VerifyUtilityReturned
    \/ SignSingle
    \/ VerifySingleReturned
    \/ Return

Spec == Init /\ [][Next]_vars

\* await verifyMultiSignature(signature) on any signature result
VerifyUtility ==
    /\ call = "idle"
    /\ \E signature \in Aggregates \cup Singles :
        /\ arg' = signature
        /\ ret' = verifyMultiSignature(signature)
    /\ call' = "verifyUtility"
    /\ UNCHANGED <<providers, config, trace, outcomes, signRet, walletVars, factoryVars,
                   domainVars, metamaskVars>>

NextVerify == VerifyMulti \/ VerifySingle \/ VerifyUtility \/ Return

SpecVerify == InitVerify /\ [][NextVerify]_vars

----------------------------------------------------------------------------
(* walletexten: the wallet registries and collectSignatures *)

WalletIds == 1..MaxWallets
Variants == {"wagmi", "manager", "hook"}

Range(f) == {f[i] : i \in DOMAIN f}

\* a registry kept as an array that is pushed to: a key set twice is held twice
ArrayPush(m, k) == Append(m, k)

\* Map.prototype.set on the key sequence: an existing key keeps its place
MapSet(m, k) == IF k \in Range(m) THEN m ELSE Append(m, k)

\* Map.prototype.delete
MapDelete(m, k) == SelectSeq(m, LAMBDA x : x # k)

\* Map.prototype.size
MapSize(m) == Len(m)

isThresholdMet == MapSize(connectedWallets) >= threshold

NoErr == [name |-> "none", required |-> 0, connected |-> 0, walletId |-> 0, causes |-> <<>>]
NoCollect == [kind |-> "none", value |-> <<>>, error |-> NoErr]
Returned(v) == [kind |-> "return", value |-> v, error |-> NoErr]
Thrown(e) == [kind |-> "throw", value |-> <<>>, error |-> e]

\* Error(`Multi-sign threshold not met. Required: ${threshold}, Connected: ${size}`)
ThresholdNotMet(required, connected) ==
    [NoErr EXCEPT !.name = "ThresholdNotMet", !.required = required, !.connected = connected]

\* Error(`Failed to collect signature from wallet ${walletId}`)
CollectFailed(w) == [NoErr EXCEPT !.name = "CollectFailed", !.walletId = w]

\* Error(`Failed to collect signatures from all wallets: ${messages}`)
AllFailed(errs) == [NoErr EXCEPT !.name = "AllFailed", !.causes = errs]

\* collectSignatures that compares what it collected with the threshold before returning
AfterLoopCheckingThreshold(v, sigs, errs) ==
    IF v = "hook" /\ Len(errs) > 0 /\ Len(sigs) = 0 THEN Thrown(AllFailed(errs))
    ELSE IF v = "wagmi" /\ Len(sigs) < threshold
    THEN Thrown(ThresholdNotMet(threshold, Len(sigs)))
    ELSE Returned(sigs)
\* what collectSignatures does once the loop is over
AfterLoop(v, sigs, errs) ==
    IF v = "hook" /\ Len(errs) > 0 /\ Len(sigs) = 0 THEN Thrown(AllFailed(errs))
    ELSE Returned(sigs)

\* collectSignatures without its precondition check
NoPrecondition(v) == FALSE

\* whether the precondition check at the head of collectSignatures throws
PreconditionFails(v) == v = "wagmi" /\ ~isThresholdMet

\* the wallets the for-of loop visits: a wallet that threw ends the wagmi loop
CatchRethrows(v) == v = "wagmi"

\* the hook records a wallet without address as an error; the classes record nothing
RecordsErrors(v) == v = "hook"

WalletInit ==
    /\ variant \in Variants
    /\ \E t \in 0..MaxWallets :
           \* the hook reads config.multiSignThreshold || 1
           threshold = IF variant = "hook" /\ t = 0 THEN 1 ELSE t
    /\ connectedWallets = <<>>
    /\ pc = "idle"
    /\ idx = 0
    /\ signatures = <<>>
    /\ errors = <<>>
    /\ calls = <<>>
    /\ result = NoCollect

InitWallet ==
    /\ providers = <<>>
    /\ config = [threshold |-> 1, signers |-> {}]
    /\ StrategyIdle
    /\ WalletInit
    /\ FactoryIdle
    /\ DomainIdle
    /\ MetaMaskIdle

\* addWallet(walletId, wallet); in the hook the new Map is the state of the next render,
\* which is the state taken here.  The registry is touched only between signing rounds.
AddWallet ==
    /\ pc = "idle"
    /\ \E w \in WalletIds : connectedWallets' = MapSet(connectedWallets, w)
    /\ UNCHANGED <<variant, threshold, pc, idx, signatures, errors, calls, result, strategyVars, factoryVars, domainVars, metamaskVars>>

\* removeWallet(walletId)
RemoveWallet ==
    /\ pc = "idle"
    /\ \E w \in WalletIds : connectedWallets' = MapDelete(connectedWallets, w)
    /\ UNCHANGED <<variant, threshold, pc, idx, signatures, errors, calls, result, strategyVars, factoryVars, domainVars, metamaskVars>>

\* collectSignatures(message) up to its first await
StartCollect ==
    /\ pc = "idle"
    /\ signatures' = <<>>
    /\ errors' = <<>>
    /\ calls' = <<>>
    /\ IF PreconditionFails(variant)
       THEN /\ pc' = "done"
            /\ idx' = 0
            /\ result' = Thrown(ThresholdNotMet(threshold, MapSize(connectedWallets)))
       ELSE IF MapSize(connectedWallets) = 0
       THEN /\ pc' = "done"
            /\ idx' = 0
            /\ result' = AfterLoop(variant, <<>>, <<>>)
       ELSE /\ pc' = "getAddress"
            /\ idx' = 1
            /\ result' = NoCollect
    /\ UNCHANGED <<variant, threshold, connectedWallets, strategyVars, factoryVars, domainVars, metamaskVars>>

\* signatures.unshift(...): the newest entry first
Unshift(list, entry) == <<entry>> \o list

\* signatures.push({walletId, address, signature})
Push(list, entry) == Append(list, entry)

\* the loop moves on to the next wallet, or ends and collectSignatures settles
Advance(sigs, errs) ==
    /\ signatures' = sigs
    /\ errors' = errs
    /\ IF idx < MapSize(connectedWallets)
       THEN /\ pc' = "getAddress"
            /\ idx' = idx + 1
            /\ result' = NoCollect
       ELSE /\ pc' = "done"
            /\ idx' = idx
            /\ result' = AfterLoop(variant, sigs, errs)

\* the catch block of the loop, for the wallet at idx
Caught(message) ==
    IF CatchRethrows(variant)
    THEN /\ pc' = "done"
         /\ idx' = idx
         /\ result' = Thrown(CollectFailed(connectedWallets[idx]))
         /\ UNCHANGED <<signatures, errors>>
    ELSE Advance(signatures,
                 IF RecordsErrors(variant)
                 THEN Append(errors, [walletId |-> connectedWallets[idx], message |-> message])
                 ELSE errors)

\* the wallet method that just settled, as logged in calls
Called(method, outcome) ==
    Append(calls, [walletId |-> connectedWallets[idx], method |-> method, outcome |-> outcome])

\* await wallet.getAddress() settles
GetAddress ==
    /\ pc = "getAddress"
    /\ \E o \in {"address", "none", "throw"} :
        /\ calls' = Called("getAddress", o)
        /\ CASE o = "address" ->
                   /\ pc' = "sign"
                   /\ UNCHANGED <<idx, signatures, errors, result>>
             [] o = "none" ->
                   Advance(signatures,
                           IF RecordsErrors(variant)
                           THEN Append(errors, [walletId |-> connectedWallets[idx],
                                                message |-> "No address available"])
                           ELSE errors)
             [] o = "throw" -> Caught("getAddress failed")
    /\ UNCHANGED <<variant, threshold, connectedWallets, strategyVars, factoryVars, domainVars, metamaskVars>>

\* await wallet.signTypedData(...) settles
SignTypedData ==
    /\ pc = "sign"
    /\ \E o \in {"sig", "throw"} :
        /\ calls' = Called("signTypedData", o)
        /\ CASE o = "sig" ->
                   Advance(Push(signatures,
                                [walletId |-> connectedWallets[idx],
                                 address |-> Address(connectedWallets[idx]),
                                 signature |-> Sig(connectedWallets[idx], TheMessage)]),
                           errors)
             [] o = "throw" -> Caught("signTypedData failed")
    /\ UNCHANGED <<variant, threshold, connectedWallets, strategyVars, factoryVars, domainVars, metamaskVars>>

\* the caller has consumed the outcome of collectSignatures
CollectReturn ==
    /\ pc = "done"
    /\ pc' = "idle"
    /\ idx' = 0
    /\ signatures' = <<>>
    /\ errors' = <<>>
    /\ calls' = <<>>
    /\ result' = NoCollect
    /\ UNCHANGED <<variant, threshold, connectedWallets, strategyVars, factoryVars, domainVars, metamaskVars>>

\* WagmiMultiSignStrategy.aggregateSignatures
aggregateSignatures(sigs) ==
    [signatures |-> [i \in 1..Len(sigs) |->
                        [address |-> sigs[i].address, signature |-> sigs[i].signature]],
     threshold |-> threshold,
     totalSignatures |-> Len(sigs)]

\* the wagmi aggregate read as a SignatureResult by MultiSignStrategy.verifySignature: it
\* has a signatures array (of objects, which are no signature strings) and a threshold,
\* and neither signers nor message
AsSignatureResult(agg) ==
    SignatureAggregate([i \in 1..Len(agg.signatures) |-> Malformed], <<>>, agg.threshold,
                       NoMessage)

\* WagmiSigningManager.signMessage in multi mode, given how collectSignatures settled:
\* an error of collectSignatures propagates, its list is aggregated as it is
WagmiSigningManager_signMessage(collected) ==
    IF collected.kind = "throw"
    THEN [thrown |-> TRUE, value |-> aggregateSignatures(<<>>), error |-> collected.error]
    ELSE [thrown |-> FALSE, value |-> aggregateSignatures(collected.value), error |-> NoErr]

NextWallet ==
    \/ AddWallet
    \/ RemoveWallet
    \/ StartCollect
    \/ GetAddress
    \/ SignTypedData
    \/ CollectReturn

SpecWallet == InitWallet /\ [][NextWallet]_vars

----------------------------------------------------------------------------
(* core/DomainConfig.ts: the NonceManager as a state machine *)

NonceOp(name, n, r, b) ==
    [NoOp EXCEPT !.name = name, !.nonce = n, !.retNonce = r, !.retBool = b]

\* new NonceManager(initialNonce, maxAge)
InitNonce ==
    /\ providers = <<>>
    /\ config = [threshold |-> 1, signers |-> {}]
    /\ StrategyIdle
    /\ WalletIdle
    /\ maxAge \in MaxAges
    /\ now = 0
    /\ \E initialNonce \in InitialNonces :
        /\ nonceState = NewNonceState(initialNonce, 0)
        /\ history = NewHistory(initialNonce)
    /\ domain = NewDomain(1)
    /\ lastOp = NoOp
    /\ DomainIdle
    /\ MetaMaskIdle

\* time passes between two calls
Tick ==
    /\ now < MaxTicks * TickMs
    /\ now' = now + TickMs
    /\ lastOp' = [NoOp EXCEPT !.name = "tick"]
    /\ UNCHANGED <<nonceState, history, maxAge, domain, strategyVars, walletVars, domainVars, metamaskVars>>

GenerateNonce ==
    /\ Cardinality(history.issued) < MaxIssued
    /\ LET o == generateNonce(nonceState, maxAge, now)
       IN  /\ nonceState' = o.state
           /\ lastOp' = NonceOp("generateNonce", Absent, o.ret, FALSE)
           /\ history' = [history EXCEPT !.issued = @ \cup {o.ret}, !.ever = @ \cup {o.ret}]
    /\ UNCHANGED <<now, maxAge, domain, strategyVars, walletVars, domainVars, metamaskVars>>

MarkNonceUsed ==
    /\ \E nonce \in NonceArgs :
        LET o == markNonceUsed(nonceState, maxAge, now, nonce)
        IN  /\ nonceState' = o.state
            /\ lastOp' = NonceOp("markNonceUsed", Given(nonce), 0 - 1, FALSE)
    /\ UNCHANGED <<history, now, maxAge, domain, strategyVars, walletVars, domainVars, metamaskVars>>

IsNonceUsed ==
    /\ \E nonce \in NonceArgs :
        LET o == isNonceUsed(nonceState, maxAge, now, nonce)
        IN  /\ nonceState' = o.state
            /\ lastOp' = NonceOp("isNonceUsed", Given(nonce), 0 - 1, o.ret)
    /\ UNCHANGED <<history, now, maxAge, domain, strategyVars, walletVars, domainVars, metamaskVars>>

ValidateNonce ==
    /\ \E nonce \in NonceArgs :
        LET o == validateNonce(nonceState, maxAge, now, nonce)
        IN  /\ nonceState' = o.state
            /\ lastOp' = NonceOp("validateNonce", Given(nonce), 0 - 1, o.ret)
    /\ UNCHANGED <<history, now, maxAge, domain, strategyVars, walletVars, domainVars, metamaskVars>>

\* what getState returns is the state it leaves
GetState ==
    /\ LET o == getState(nonceState, maxAge, now)
       IN  /\ nonceState' = o.state
           /\ lastOp' = NonceOp("getState", Absent, o.ret.current, FALSE)
    /\ UNCHANGED <<history, now, maxAge, domain, strategyVars, walletVars, domainVars, metamaskVars>>

Reset ==
    /\ \E initialNonce \in InitialNonces :
        LET o == reset(nonceState, now, initialNonce)
        IN  /\ nonceState' = o.state
            /\ lastOp' = NonceOp("reset", Given(initialNonce), 0 - 1, FALSE)
            /\ history' = [history EXCEPT !.base = initialNonce, !.issued = {}]
    /\ UNCHANGED <<now, maxAge, domain, strategyVars, walletVars, domainVars, metamaskVars>>

SyncWithBackend ==
    /\ \E backendNonce \in BackendNonces :
        LET o == syncWithBackend(nonceState, now, backendNonce)
        IN  /\ nonceState' = o.state
            /\ lastOp' = NonceOp("syncWithBackend", Given(backendNonce), 0 - 1, FALSE)
            /\ history' = [history EXCEPT !.base = backendNonce + 1, !.issued = {}]
    /\ UNCHANGED <<now, maxAge, domain, strategyVars, walletVars, domainVars, metamaskVars>>

\* the utility validator applied to the used set of the manager:
\* validateNonce(nonce, nonceManager.getState().used)
ValidateNonceUtility ==
    /\ \E nonce \in NonceArgs :
        LET o == getState(nonceState, maxAge, now)
        IN  /\ nonceState' = o.state
            /\ lastOp' = NonceOp("utilityValidateNonce", Given(nonce), 0 - 1,
                                 utils_validateNonce(nonce, o.ret.used))
    /\ UNCHANGED <<history, now, maxAge, domain, strategyVars, walletVars, domainVars, metamaskVars>>

NextNonce ==
    \/ Tick
    \/ GenerateNonce
    \/ MarkNonceUsed
    \/ IsNonceUsed
    \/ ValidateNonce
    \/ ValidateNonceUtility
    \/ GetState
    \/ Reset
    \/ SyncWithBackend

SpecNonce == InitNonce /\ [][NextNonce]_vars

----------------------------------------------------------------------------
(* core/MessageFactory.ts: the factory, its DomainConfig and its NonceManager *)

OptionalNonces == {Absent} \cup {Given(n) : n \in NonceArgs}
OptionalDeadlines == {Absent} \cup {Given(d) : d \in DeadlineArgs}

\* new MessageFactory(new DomainConfig('EngineDex', '1.0', 1, contract), new NonceManager())
InitFactory ==
    /\ providers = <<>>
    /\ config = [threshold |-> 1, signers |-> {}]
    /\ StrategyIdle
    /\ WalletIdle
    /\ maxAge \in MaxAges
    /\ now = 0
    /\ nonceState = NewNonceState(0, 0)
    /\ history = NewHistory(0)
    /\ domain = NewDomain(1)
    /\ lastOp = NoOp
    /\ DomainIdle
    /\ MetaMaskIdle

\* createDepositMessage, createWithdrawalMessage, createOrderSubmissionMessage or
\* createOrderCancellationMessage(..., nonce?, deadline?)
CreateTyped ==
    /\ \E kind \in SignableKinds, nonce \in OptionalNonces, deadline \in OptionalDeadlines :
        /\ nonce.given \/ Cardinality(history.issued) < MaxIssued
        /\ LET r == createTypedMessage(domain, nonceState, maxAge, now, kind, nonce, deadline)
               got == IF nonce.given THEN {} ELSE {BigInt(r.built.value.message.nonce)}
           IN  /\ nonceState' = r.state
               /\ lastOp' = [NoOp EXCEPT !.name = "createTyped", !.kind = kind,
                                         !.nonce = nonce, !.deadline = deadline,
                                         !.thrown = r.built.thrown, !.error = r.built.error,
                                         !.message = r.built.value]
               /\ history' = [history EXCEPT !.issued = @ \cup got, !.ever = @ \cup got]
    /\ UNCHANGED <<now, maxAge, domain, strategyVars, walletVars, domainVars, metamaskVars>>

\* createMessage(operation) on an operation object of any kind
CreateMessage ==
    /\ \E kind \in Kinds, nonce \in NonceArgs, deadline \in DeadlineArgs :
        LET r == createMessage(domain, Operation(kind, nonce, deadline))
        IN  lastOp' = [NoOp EXCEPT !.name = "createMessage", !.kind = kind,
                                   !.nonce = Given(nonce), !.deadline = Given(deadline),
                                   !.thrown = r.thrown, !.error = r.error,
                                   !.message = r.value]
    /\ UNCHANGED <<nonceState, history, now, maxAge, domain, strategyVars, walletVars, domainVars, metamaskVars>>

\* the messages handed to validateMessage: what createMessage builds
Messages ==
    {createMessage(domain, Operation(kind, nonce, deadline)).value :
        kind \in {"Deposit", "OrderCancellation"}, nonce \in NonceArgs,
        deadline \in DeadlineArgs}

ValidateMessage ==
    /\ \E m \in Messages :
        LET r == validateMessage(domain, nonceState, maxAge, now, m)
        IN  /\ nonceState' = r.state
            /\ lastOp' = [NoOp EXCEPT !.name = "validateMessage", !.kind = m.primaryType,
                                      !.message = m, !.retBool = r.ret.isValid,
                                      !.errors = r.ret.errors]
    /\ UNCHANGED <<history, now, maxAge, domain, strategyVars, walletVars, domainVars, metamaskVars>>

NextFactory ==
    \/ Tick
    \/ MarkNonceUsed
    \/ CreateTyped
    \/ CreateMessage
    \/ ValidateMessage

SpecFactory == InitFactory /\ [][NextFactory]_vars

----------------------------------------------------------------------------
(* core/DomainConfig.ts: the DomainConfig, its callers and the messages built over it *)

ChainIds == {0, 1, 5}                           \* chainId of the constructor and of updateChainId
ShortContract == [prefix |-> "0x", length |-> 40]
Contracts == {Contract, ShortContract}          \* verifyingContract of updateVerifyingContract

\* new DomainConfig('EngineDex', '1.0', chainId, verifyingContract) and a factory over it
InitDomain ==
    /\ providers = <<>>
    /\ config = [threshold |-> 1, signers |-> {}]
    /\ StrategyIdle
    /\ WalletIdle
    /\ nonceState = NewNonceState(0, 0)
    /\ maxAge = DayMs
    /\ now = 0
    /\ history = NewHistory(0)
    /\ lastOp = NoOp
    /\ domain \in {NewDomain(c) : c \in ChainIds}
    /\ constructed = domain
    /\ returned = <<>>
    /\ built = <<>>
    /\ MetaMaskIdle

\* kept = domainConfig.getDomain()
GetDomain ==
    /\ returned' = <<getDomain(domain)>>
    /\ lastOp' = [NoOp EXCEPT !.name = "getDomain"]
    /\ UNCHANGED <<domain, constructed, built, nonceState, history, now, maxAge,
                   strategyVars, walletVars, metamaskVars>>

UpdateChainId ==
    /\ \E chainId \in ChainIds :
        /\ domain' = updateChainId(domain, chainId)
        /\ lastOp' = [NoOp EXCEPT !.name = "updateChainId", !.chainId = chainId]
    /\ UNCHANGED <<constructed, returned, built, nonceState, history, now, maxAge,
                   strategyVars, walletVars, metamaskVars>>

UpdateVerifyingContract ==
    /\ \E verifyingContract \in Contracts :
        domain' = updateVerifyingContract(domain, verifyingContract)
    /\ lastOp' = [NoOp EXCEPT !.name = "updateVerifyingContract"]
    /\ UNCHANGED <<constructed, returned, built, nonceState, history, now, maxAge,
                   strategyVars, walletVars, metamaskVars>>

\* kept.chainId = chainId, by the caller that holds the returned object
MutateReturned ==
    /\ returned # <<>>
    /\ \E chainId \in ChainIds :
        LET o == returned[1]
        IN  IF o.alias
            THEN /\ domain' = [domain EXCEPT !.chainId = chainId]
                 /\ returned' = <<[o EXCEPT !.seen.chainId = chainId]>>
            ELSE /\ domain' = domain
                 /\ returned' = <<[o EXCEPT !.value.chainId = chainId,
                                            !.seen.chainId = chainId]>>
    /\ lastOp' = [NoOp EXCEPT !.name = "mutateReturned"]
    /\ UNCHANGED <<constructed, built, nonceState, history, now, maxAge,
                   strategyVars, walletVars, metamaskVars>>

\* message = factory.createMessage(depositOperation), kept by the caller
CreateAndKeep ==
    /\ \E nonce \in NonceArgs, deadline \in DeadlineArgs :
        LET r == createMessage(domain, Operation("Deposit", nonce, deadline))
        IN  /\ built' = <<r.value>>
            /\ lastOp' = [NoOp EXCEPT !.name = "createMessage", !.kind = "Deposit",
                                      !.nonce = Given(nonce), !.deadline = Given(deadline),
                                      !.thrown = r.thrown, !.error = r.error,
                                      !.message = r.value]
    /\ UNCHANGED <<domain, constructed, returned, nonceState, history, now, maxAge,
                   strategyVars, walletVars, metamaskVars>>

\* factory.validateMessage(message) on the kept message
ValidateKept ==
    /\ built # <<>>
    /\ LET r == validateMessage(domain, nonceState, maxAge, now, built[1])
       IN  /\ nonceState' = r.state
           /\ lastOp' = [NoOp EXCEPT !.name = "validateMessage", !.kind = built[1].primaryType,
                                     !.message = built[1], !.retBool = r.ret.isValid,
                                     !.errors = r.ret.errors]
    /\ UNCHANGED <<domain, constructed, returned, built, history, now, maxAge,
                   strategyVars, walletVars, metamaskVars>>

NextDomain ==
    \/ GetDomain
    \/ UpdateChainId
    \/ UpdateVerifyingContract
    \/ MutateReturned
    \/ CreateAndKeep
    \/ ValidateKept

SpecDomain == InitDomain /\ [][NextDomain]_vars

----------------------------------------------------------------------------
(* utils/wallet.ts: the MetaMaskProvider as a state machine *)

\* this, as the methods read it
Self == [provider |-> provider, connection |-> connection]

\* new MetaMaskProvider(): window.ethereum is there or it is not
InitMetaMask ==
    /\ providers = <<>>
    /\ config = [threshold |-> 1, signers |-> {}]
    /\ StrategyIdle
    /\ WalletIdle
    /\ FactoryIdle
    /\ DomainIdle
    /\ provider \in {Ethereum, NoProvider}
    /\ connection = <<>>
    /\ walletOp = NoWalletOp
    /\ walletLog = <<>>

\* a call has settled as r, the backend having been ready to reply as given
WalletCalled(name, accounts, chain, sign, r) ==
    /\ connection' = r.cache
    /\ walletOp' = [name |-> name, accounts |-> accounts, chain |-> chain, sign |-> sign,
                    thrown |-> r.thrown, error |-> r.error, conn |-> r.conn,
                    signature |-> r.signature]
    /\ walletLog' = Append(walletLog, [name |-> name, thrown |-> r.thrown])
    /\ UNCHANGED <<provider, strategyVars, walletVars, factoryVars, domainVars>>

MetaMaskConnect ==
    /\ Len(walletLog) < MaxCalls
    /\ \E accounts \in AccountsReplies, chain \in ChainReplies :
        WalletCalled("connect", accounts, chain, "rejected",
                     MetaMaskProvider_connect(Self, accounts, chain))

MetaMaskDisconnect ==
    /\ Len(walletLog) < MaxCalls
    /\ WalletCalled("disconnect", AccountsRejected, ChainRejected, "rejected",
                    MetaMaskProvider_disconnect(Self))

MetaMaskGetConnection ==
    /\ Len(walletLog) < MaxCalls
    /\ \E accounts \in AccountsReplies, chain \in ChainReplies :
        WalletCalled("getConnection", accounts, chain, "rejected",
                     MetaMaskProvider_getConnection(Self, accounts, chain))

MetaMaskSignTypedData ==
    /\ Len(walletLog) < MaxCalls
    /\ \E accounts \in AccountsReplies, chain \in ChainReplies, sign \in SignReplies :
        WalletCalled("signTypedData", accounts, chain, sign,
                     MetaMaskProvider_signTypedData(Self, accounts, chain, sign, TheMessage))

NextMetaMask ==
    \/ MetaMaskConnect
    \/ MetaMaskDisconnect
    \/ MetaMaskGetConnection
    \/ MetaMaskSignTypedData

SpecMetaMask == InitMetaMask /\ [][NextMetaMask]_vars

----------------------------------------------------------------------------
(* Properties of verification (SpecVerify) *)

\* two addresses are equal up to letter case
SameAddress(a, b) == a.form # "undefined" /\ b.form # "undefined" /\ a.acct = b.acct

SignerAt(agg, i) == IF i <= Len(agg.signers) THEN agg.signers[i] ELSE Undefined

\* position i holds a signature that recovers, against the aggregate's message, to signers[i]
ValidPair(agg, i) ==
    LET r == verifyTypedData(agg.message, agg.signatures[i])
    IN  ~r.thrown /\ SameAddress(r.value, SignerAt(agg, i))

ValidCount(agg) == Cardinality({i \in 1..Len(agg.signatures) : ValidPair(agg, i)})

\* C1: for an aggregate with threshold >= 1, MultiSignStrategy.verifySignature returns true
\* exactly when validCount >= threshold, validCount being the number of positions whose
\* signature recovers to the claimed signer up to letter case; invalid, mismatching and
\* unrecoverable positions add nothing and never make a satisfied aggregate rejected.
C1_VerifyIffValidCount ==
    (call = "verify" /\ arg.hasSignatures /\ arg.threshold >= 1)
        => ret = Returns(ValidCount(arg) >= arg.threshold)

\* an aggregate accepted although one of its positions is unrecoverable and the counted
\* position differs in letter case from the recovered address
C1_Witness ==
    /\ call = "verify"
    /\ arg.hasSignatures
    /\ Len(arg.signatures) = 2
    /\ arg.threshold = 1
    /\ arg.signatures[1] = Malformed
    /\ arg.signers[2] = [acct |-> 2, form |-> "upper"]
    /\ ValidCount(arg) = 1
    /\ ret = Returns(TRUE)

\* the claimed signer is one of config.signers, up to letter case
Expected(addr) == \E s \in config.signers : SameAddress(s, addr)

\* C2: verification counts a pair toward the threshold only when the claimed signer is a
\* member of config.signers: an aggregate is reported satisfied only if at least threshold
\* positions are valid and claim an expected signer.
C2_OnlyExpectedSignersCount ==
    (call = "verify" /\ arg.hasSignatures /\ ret = Returns(TRUE))
        => Cardinality({i \in 1..Len(arg.signatures) :
                           ValidPair(arg, i) /\ Expected(SignerAt(arg, i))}) >= arg.threshold

\* C9: verifySignature of both strategies returns a boolean and never throws, whatever the
\* signature result; an unrecoverable signature makes the single-sign check return false
\* and leaves the pair uncounted in the multi-sign check.
C9_VerifyNeverThrows ==
    (call \in {"verify", "verifySingle"}) =>
        /\ ~ret.thrown
        /\ ret.value \in BOOLEAN
        /\ (call = "verifySingle" /\ verifyTypedData(arg.message, arg.signature).thrown)
              => ret.value = FALSE
        /\ (call = "verify" /\ arg.hasSignatures /\ ret.value = TRUE)
              => Cardinality({i \in 1..Len(arg.signatures) :
                                 ~verifyTypedData(arg.message, arg.signatures[i]).thrown})
                    >= arg.threshold

\* a single signature whose encoding is malformed was checked and reported false
C9_Witness ==
    /\ call = "verifySingle"
    /\ ~arg.hasSignatures
    /\ arg.signature = Malformed
    /\ arg.signer = Address(1)
    /\ ret = Returns(FALSE)

\* C28: on every well-formed aggregate MultiSignStrategy.verifySignature and the utility
\* verifyMultiSignature return the same boolean, except on an empty signature list with
\* threshold <= 0, where the strategy returns false and the utility true; they agree on
\* every aggregate with threshold >= 1.
C28_StrategyAndUtilityAgree ==
    (call = "verifyUtility" /\ arg.hasSignatures)
        => /\ ~ret.thrown
           /\ IF Len(arg.signatures) = 0 /\ arg.threshold <= 0
              THEN /\ ret = Returns(TRUE)
                   /\ MultiSignStrategy_verifySignature(arg) = Returns(FALSE)
              ELSE ret = MultiSignStrategy_verifySignature(arg)
           /\ arg.threshold >= 1 => ret = MultiSignStrategy_verifySignature(arg)

\* the one disagreement: no signatures and a threshold of zero
C28_Witness ==
    /\ call = "verifyUtility"
    /\ arg.hasSignatures
    /\ arg.signatures = <<>>
    /\ arg.threshold = 0
    /\ ret = Returns(TRUE)

----------------------------------------------------------------------------
(* Properties of MultiSignStrategy.signMessage (Spec) *)

\* provider i produced a signature that recovery accepts
Produced(i) ==
    /\ outcomes[i].conn # "throw"
    /\ ~(outcomes[i].conn = "none" /\ outcomes[i].connect = "throw")
    /\ outcomes[i].sign \in {"sig", "wrong"}

Producers == {i \in 1..Len(providers) : Produced(i)}

\* C10: an aggregate returned by MultiSignStrategy.signMessage has as many signers as
\* signatures, signers[i] is the address recovered from signatures[i], its threshold is
\* config.threshold and it holds at least threshold signatures; when fewer than threshold
\* providers produce a recoverable signature, signMessage throws 'Insufficient signatures'
\* with the failure of every provider that failed.
C10_SignMessageAggregate ==
    (call = "sign") =>
        /\ signRet.thrown <=> Cardinality(Producers) < config.threshold
        /\ ~signRet.thrown =>
              LET a == signRet.value
              IN  /\ a.hasSignatures
                  /\ Len(a.signatures) = Len(a.signers)
                  /\ Len(a.signatures) = Cardinality(Producers)
                  /\ \A i \in 1..Len(a.signatures) :
                         verifyTypedData(a.message, a.signatures[i]) = Returns(a.signers[i])
                  /\ a.threshold = config.threshold
                  /\ Len(a.signatures) >= a.threshold
        /\ signRet.thrown =>
              /\ signRet.error.name = "Insufficient signatures"
              /\ signRet.error.have = Cardinality(Producers)
              /\ signRet.error.need = config.threshold
              /\ Len(signRet.error.errors) = Len(providers) - Cardinality(Producers)
              /\ {signRet.error.errors[k].provider : k \in 1..Len(signRet.error.errors)}
                    = (1..Len(providers)) \ Producers

\* two providers, one of which failed, and an aggregate of the other's signature returned
C10_Witness ==
    /\ call = "sign"
    /\ Len(providers) = 2
    /\ config.threshold = 1
    /\ ~signRet.thrown
    /\ Len(signRet.value.signatures) = 1
    /\ outcomes[1].sign = "throw"

\* WagmiSecurityValidator.validateThreshold(threshold, connectedWallets); thresholds of
\* the model are integers.  No constructor and no signing routine calls it.
validateThreshold(t, connected) == t > 0 /\ t <= connected

\* C11: a MultiSignStrategy is used only with 1 <= threshold <= number of expected signers:
\* signMessage on a strategy whose config has a threshold below 1 or above the number of
\* config.signers is rejected, it does not return an aggregate.
C11_ThresholdWithinSigners ==
    (call = "sign" /\ ~validateThreshold(config.threshold, Cardinality(config.signers)))
        => signRet.thrown

\* the positions of the trace at which a wallet method was called
CalledAt(method) == {i \in DOMAIN trace : trace[i] = method}

\* C23: SingleSignStrategy.signMessage calls the wallet's connect() exactly when
\* getConnection() reports no live connection, and before signTypedData; when connect or
\* signTypedData fails, signTypedData (resp. recovery) is not attempted, nothing is
\* returned and the error thrown wraps the cause; on success the record's signer is the
\* address recovered from the signature the wallet returned.
C23_SingleSignConnectsWhenNeeded ==
    call = "signSingle" =>
        LET o == outcomes[1]
        IN  /\ CalledAt("connect") # {} <=> o.conn = "none"
            /\ \A c \in CalledAt("connect"), s \in CalledAt("signTypedData") : c < s
            /\ Cardinality(CalledAt("connect")) <= 1
            /\ (o.conn = "none" /\ o.connect = "throw")
                 => /\ CalledAt("signTypedData") = {}
                    /\ signRet.thrown
                    /\ signRet.error.errors = <<[provider |-> 1, cause |-> "connect"]>>
            /\ (o.conn # "throw" /\ o.connect = "ok" /\ o.sign = "throw")
                 => /\ Cardinality(CalledAt("signTypedData")) = 1
                    /\ CalledAt("recoverSigner") = {}
                    /\ signRet.thrown
                    /\ signRet.error.errors = <<[provider |-> 1, cause |-> "signTypedData"]>>
            /\ signRet.thrown => signRet.value = NoResult
            /\ ~signRet.thrown
                 => /\ signRet.value.signature = signTypedData(providers[1], TheMessage, o.sign)
                    /\ signRet.value.signer
                         = verifyTypedData(TheMessage, signRet.value.signature).value
                    /\ signRet.value.message = TheMessage

\* no live connection: connect succeeded, the wallet signed, and the record came back
C23_Witness ==
    /\ call = "signSingle"
    /\ outcomes[1] = [conn |-> "none", connect |-> "ok", sign |-> "sig"]
    /\ trace = <<"getConnection", "connect", "signTypedData", "recoverSigner">>
    /\ ~signRet.thrown
    /\ signRet.value.signer = Address(providers[1])

\* C24: every result returned by MultiSignStrategy.signMessage, and by
\* SingleSignStrategy.signMessage, is accepted by the same strategy's verifySignature,
\* whichever accounts the wallets hold and whatever config.signers contains.
C24_SignedResultVerifies ==
    call \in {"verifyReturned", "verifySingleReturned"} => ret = Returns(TRUE)

\* every provider produced a recoverable signature
AllProduced == Producers = 1..Len(providers)

\* C25: multi-sign verification counts positions, not distinct signers: verifySignature
\* and verifyMultiSignature add one for every position whose signature recovers to its
\* claimed signer, so an aggregate that repeats one valid pair threshold times is
\* satisfied; and signMessage counts two providers that hold the same account as two
\* signatures toward the threshold.
C25_PositionsNotSignersCount ==
    /\ (call = "sign" /\ AllProduced /\ Len(providers) >= config.threshold)
         => /\ ~signRet.thrown
            /\ Len(signRet.value.signatures) = Len(providers)
    /\ (call = "verifyReturned" /\ Len(arg.signatures) >= 1)
         => ret = Returns(ValidCount(arg) >= arg.threshold)
    /\ call = "verifyUtilityReturned"
         => ret = Returns(ValidCount(arg) >= arg.threshold)

\* two providers of the same account signed for a threshold of two, and the aggregate of
\* the pair repeated twice is accepted
C25_Witness ==
    /\ call = "verifyReturned"
    /\ providers = <<1, 1>>
    /\ config.threshold = 2
    /\ Len(arg.signatures) = 2
    /\ arg.signatures[1] = arg.signatures[2]
    /\ arg.signers[1] = arg.signers[2]
    /\ ret = Returns(TRUE)

----------------------------------------------------------------------------
(* Properties of the wallet registries and collectSignatures (SpecWallet) *)

Position(w) == CHOOSE i \in 1..Len(connectedWallets) : connectedWallets[i] = w

CallsOf(w) == {k \in 1..Len(calls) : calls[k].walletId = w}

Asked(w) == \E k \in CallsOf(w) : calls[k].method = "getAddress"

Signed(w) == \E k \in CallsOf(w) : calls[k].method = "signTypedData" /\ calls[k].outcome = "sig"

Failed(w) == \E k \in CallsOf(w) : calls[k].outcome \in {"none", "throw"}

\* the call at position k ends its wallet's turn in the loop
EndsTurn(k) == calls[k].method = "signTypedData" \/ calls[k].outcome # "address"

PreconditionThrew == result.kind = "throw" /\ result.error.name = "ThresholdNotMet"

\* C3: collectSignatures asks every registered wallet to sign whether or not a wallet
\* earlier in the iteration threw; one wallet's failure never aborts the collection.
C3_EveryWalletAsked ==
    (pc = "done" /\ ~PreconditionThrew) => \A w \in Range(connectedWallets) : Asked(w)

\* C4: WagmiMultiSignStrategy.collectSignatures with fewer registered wallets than the
\* threshold throws the threshold-not-met error carrying the required and connected
\* counts, before any wallet method is called; with enough wallets that error never occurs.
C4_ThresholdPrecondition ==
    (variant = "wagmi" /\ pc # "idle") =>
        /\ MapSize(connectedWallets) < threshold =>
              /\ pc = "done"
              /\ result = Thrown(ThresholdNotMet(threshold, MapSize(connectedWallets)))
              /\ calls = <<>>
        /\ MapSize(connectedWallets) >= threshold => ~PreconditionThrew

\* one wallet registered where two are required: the call failed without touching it
C4_Witness ==
    /\ variant = "wagmi"
    /\ pc = "done"
    /\ threshold = 2
    /\ connectedWallets = <<3>>
    /\ PreconditionThrew
    /\ result.error.required = 2
    /\ result.error.connected = 1

\* C5: when the threshold precondition holds and every registered wallet fails to produce
\* a signature, collectSignatures (hook and wagmi strategy) does not return an empty list
\* but throws a collection-failed error listing the failure of every wallet.
C5_AllFailedThrows ==
    (/\ variant \in {"wagmi", "hook"}
     /\ pc = "done"
     /\ isThresholdMet
     /\ MapSize(connectedWallets) >= 1
     /\ \A w \in Range(connectedWallets) : Failed(w))
        => /\ result.kind = "throw"
           /\ result.error.name = "AllFailed"
           /\ {result.error.causes[k].walletId : k \in 1..Len(result.error.causes)}
                 = Range(connectedWallets)

\* C6: with threshold t and k wallets signing, 1 <= k < t, the other registered wallets
\* failing, WagmiMultiSignStrategy.collectSignatures returns exactly the k successful
\* entries without throwing, and the aggregate built from them is rejected by verification.
C6_PartialCollectionReturned ==
    LET signers == {w \in Range(connectedWallets) : Signed(w)}
    IN  (/\ variant = "wagmi"
         /\ pc = "done"
         /\ isThresholdMet
         /\ Cardinality(signers) >= 1
         /\ Cardinality(signers) < threshold
         /\ \A w \in Range(connectedWallets) \ signers : Failed(w))
            => /\ result.kind = "return"
               /\ Len(result.value) = Cardinality(signers)
               /\ {result.value[i].walletId : i \in 1..Len(result.value)} = signers
               /\ MultiSignStrategy_verifySignature(
                      AsSignatureResult(aggregateSignatures(result.value))) = Returns(FALSE)

\* C7: collectSignatures deals with the registered wallets one at a time in insertion
\* order: a wallet's first call follows the call that ended the previous wallet's turn,
\* getAddress precedes signTypedData, and the list returned is the wallets that signed, in
\* that same order.
C7_SequentialInOrder ==
    /\ \A k \in 1..Len(calls) :
          /\ calls[k].walletId \in Range(connectedWallets)
          /\ calls[k].method = "getAddress" =>
                /\ Position(calls[k].walletId) = 1 <=> k = 1
                /\ k > 1 => /\ EndsTurn(k - 1)
                             /\ Position(calls[k].walletId)
                                   = Position(calls[k - 1].walletId) + 1
          /\ calls[k].method = "signTypedData" =>
                /\ k > 1
                /\ calls[k - 1] = [walletId |-> calls[k].walletId, method |-> "getAddress",
                                    outcome |-> "address"]
    /\ (pc = "done" /\ result.kind = "return") =>
          [i \in 1..Len(result.value) |-> result.value[i].walletId]
              = SelectSeq(connectedWallets, LAMBDA w : Signed(w))

\* three wallets registered out of insertion-id order, the middle one failed, and the two
\* others are returned in registry order
C7_Witness ==
    /\ pc = "done"
    /\ connectedWallets = <<3, 1, 2>>
    /\ result.kind = "return"
    /\ Len(result.value) = 2
    /\ result.value[1].walletId = 3
    /\ result.value[2].walletId = 2
    /\ Len(calls) = 5

\* C8: isThresholdMet() is true exactly when the number of distinct registered wallet ids
\* is at least the threshold, after any sequence of addWallet and removeWallet; a call that
\* leaves the set of registered ids as it was (adding a registered id, removing an
\* unregistered one) leaves the registry as it was.
C8_ThresholdMetIffEnoughIds ==
    /\ [](variant \in {"wagmi", "manager"}
            => (isThresholdMet <=> Cardinality(Range(connectedWallets)) >= threshold))
    /\ [][(variant \in {"wagmi", "manager"}
             /\ Range(connectedWallets') = Range(connectedWallets))
               => connectedWallets' = connectedWallets]_vars

\* two wallets registered and a threshold of two: met
C8_Witness ==
    /\ variant \in {"wagmi", "manager"}
    /\ pc = "idle"
    /\ threshold = 2
    /\ connectedWallets = <<2, 1>>
    /\ isThresholdMet

\* the wallet's getAddress returned a non-empty address
GaveAddress(w) ==
    \E k \in CallsOf(w) : calls[k].method = "getAddress" /\ calls[k].outcome = "address"

\* C26: WagmiMultiSignStrategy.collectSignatures compares the threshold with the number
\* of registered wallets only, never with what it collected: it returns normally exactly
\* when enough wallets are registered and no wallet call threw, its list then holds one
\* entry per registered wallet whose getAddress gave an address, however few they are, and
\* WagmiSigningManager.signMessage in multi mode returns the aggregate of that list, with
\* totalSignatures its length, without an error.
C26_CollectedNeverComparedWithThreshold ==
    (variant = "wagmi" /\ pc = "done") =>
        /\ result.kind = "return"
              <=> (isThresholdMet /\ \A k \in 1..Len(calls) : calls[k].outcome # "throw")
        /\ result.kind = "return" =>
              /\ [i \in 1..Len(result.value) |-> result.value[i].walletId]
                    = SelectSeq(connectedWallets, LAMBDA w : GaveAddress(w))
              /\ LET signed == WagmiSigningManager_signMessage(result)
                 IN  /\ ~signed.thrown
                     /\ signed.value.threshold = threshold
                     /\ signed.value.totalSignatures
                           = Cardinality({w \in Range(connectedWallets) : GaveAddress(w)})
                     /\ Len(signed.value.signatures) = signed.value.totalSignatures

\* two wallets registered for a threshold of two, one of them without an address: the
\* manager returns an aggregate of one signature
C26_Witness ==
    /\ variant = "wagmi"
    /\ pc = "done"
    /\ threshold = 2
    /\ MapSize(connectedWallets) = 2
    /\ result.kind = "return"
    /\ ~WagmiSigningManager_signMessage(result).thrown
    /\ WagmiSigningManager_signMessage(result).value.totalSignatures = 1

----------------------------------------------------------------------------
(* Properties of the NonceManager (SpecNonce) *)

\* C12: in any sequence of NonceManager operations, reset and syncWithBackend included,
\* every value returned by generateNonce is strictly greater than every value it returned
\* before.
C12_NoncesEverIncreasing ==
    [][lastOp'.name = "generateNonce"
         => \A earlier \in history.ever : lastOp'.retNonce > earlier]_vars

\* C12, amended: every value returned by generateNonce is strictly greater than every value
\* it returned since the counter was last set (by the constructor, reset or
\* syncWithBackend).
C12_IncreasingSinceCounterSet ==
    [][lastOp'.name = "generateNonce"
         => \A earlier \in history.issued : lastOp'.retNonce > earlier]_vars

\* after a reset, two nonces were generated and an older nonce is not below the last one
C12_Witness ==
    /\ lastOp.name = "generateNonce"
    /\ Cardinality(history.issued) = 2
    /\ \E older \in history.ever \ history.issued : older >= lastOp.retNonce

\* C13: consecutive generateNonce() calls with no reset or syncWithBackend in between
\* return strictly increasing values, each exactly one more than the one before, and the
\* first is the configured initial nonce (the value the counter was last set to).
C13_SequentialNonces ==
    lastOp.name = "generateNonce"
        => /\ lastOp.retNonce = history.base + Cardinality(history.issued) - 1
           /\ history.issued = history.base .. lastOp.retNonce

\* a manager constructed with initial nonce 2 has returned 2 and then 3
C13_Witness ==
    /\ lastOp.name = "generateNonce"
    /\ lastOp.retNonce = 3
    /\ history = [base |-> 2, issued |-> {2, 3}, ever |-> {2, 3}]

\* C14: right after markNonceUsed(n), with no max-age reset in between, isNonceUsed(n) is
\* true and validateNonce(n) is false, for issued and unissued n alike; a nonce just
\* returned by generateNonce and not marked has isNonceUsed false and validateNonce true.
C14_MarkedIsUsedAndInvalid ==
    /\ lastOp.name = "markNonceUsed"
         => /\ isNonceUsed(nonceState, maxAge, now, lastOp.nonce.value).ret
            /\ ~validateNonce(nonceState, maxAge, now, lastOp.nonce.value).ret
    /\ (lastOp.name = "generateNonce" /\ lastOp.retNonce \notin nonceState.used)
         => /\ ~isNonceUsed(nonceState, maxAge, now, lastOp.retNonce).ret
            /\ validateNonce(nonceState, maxAge, now, lastOp.retNonce).ret

\* nonce 1 was issued, was valid, and has just been marked used
C14_Witness ==
    /\ lastOp.name = "markNonceUsed"
    /\ lastOp.nonce = Given(1)
    /\ 1 \in history.issued
    /\ isNonceValid(nonceState, 1)
    /\ ~validateNonce(nonceState, maxAge, now, 1).ret

\* C15: validateNonce(n) returns true exactly when n is not in the used set (as the
\* time-boxed reset of the call leaves it) and n >= c - 1000, c the current counter;
\* nothing else decides the result.
C15_ValidIffUnusedAndInWindow ==
    lastOp.name = "validateNonce"
        => (lastOp.retBool <=> /\ lastOp.nonce.value \notin nonceState.used
                               /\ lastOp.nonce.value >= nonceState.current - 1000)

\* an unused nonce is refused because it is more than 1000 behind the counter
C15_Witness ==
    /\ lastOp.name = "validateNonce"
    /\ lastOp.nonce = Given(1)
    /\ ~lastOp.retBool
    /\ 1 \notin nonceState.used
    /\ nonceState.current = 1002

\* the time-boxed reset is due: more than maxAge has passed since lastUpdated
Expired == now - nonceState.lastUpdated > maxAge

\* C16: every NonceManager operation first applies the time-boxed reset: when more than
\* maxAge has passed since lastUpdated, the used set is emptied and lastUpdated becomes
\* now before the operation goes on, otherwise the used set is kept; no operation
\* restarts the age timer of an expired window and keeps the used nonces.
C16_EveryOperationCleansUp ==
    [][lastOp'.name \notin {"tick", "none"}
         => /\ Expired
                 => /\ nonceState'.lastUpdated = now
                    /\ nonceState'.used \subseteq
                         (IF lastOp'.name = "markNonceUsed"
                          THEN {lastOp'.nonce.value} ELSE {})
            /\ (~Expired /\ lastOp'.name # "reset")
                 => nonceState.used \subseteq nonceState'.used]_vars

\* C27: only generateNonce, syncWithBackend, reset and a firing time-boxed reset refresh
\* lastUpdated, markNonceUsed does not; so a nonce in the used set stays there while the
\* operations run within maxAge of lastUpdated, and only until the first operation that
\* runs more than maxAge after lastUpdated, however recently the nonce was marked.
C27_UsedUntilFirstExpiredOperation ==
    [][lastOp'.name \notin {"tick", "none"}
         => /\ nonceState'.lastUpdated # nonceState.lastUpdated
                 => \/ lastOp'.name \in {"generateNonce", "syncWithBackend", "reset"}
                    \/ Expired
            /\ (lastOp'.name = "markNonceUsed" /\ ~Expired)
                 => nonceState'.lastUpdated = nonceState.lastUpdated
            /\ \A n \in nonceState.used :
                 /\ (~Expired /\ lastOp'.name # "reset") => n \in nonceState'.used
                 /\ (Expired /\ n \in nonceState'.used)
                      => /\ lastOp'.name = "markNonceUsed"
                         /\ lastOp'.nonce = Given(n)]_vars

\* C30: the utility validateNonce(nonce, usedNonces) returns true exactly when nonce > 0
\* and nonce is not in usedNonces; on nonce 0, issued by a NonceManager and not used, it
\* answers false where NonceManager.validateNonce answers true, and on every positive
\* nonce inside the manager's window the two validators agree.
C30_UtilityRejectsNonceZero ==
    lastOp.name = "utilityValidateNonce"
        => LET n == lastOp.nonce.value
               manager == validateNonce(nonceState, maxAge, now, n).ret
           IN  /\ lastOp.retBool <=> (n > 0 /\ n \notin nonceState.used)
               /\ (n = 0 /\ 0 \in history.issued /\ 0 \notin nonceState.used
                      /\ isNonceValid(nonceState, 0))
                    => (~lastOp.retBool /\ manager)
               /\ (n > 0 /\ isNonceValid(nonceState, n)) => (lastOp.retBool <=> manager)

\* a manager constructed with the defaults has issued nonce 0, its first, which it
\* accepts and the utility has just refused
C30_Witness ==
    /\ lastOp.name = "utilityValidateNonce"
    /\ lastOp.nonce = Given(0)
    /\ ~lastOp.retBool
    /\ history = [base |-> 0, issued |-> {0}, ever |-> {0}]
    /\ nonceState.current = 1
    /\ validateNonce(nonceState, maxAge, now, 0).ret

----------------------------------------------------------------------------
(* Properties of the MessageFactory (SpecFactory) *)

\* C17: MessageFactory.validateMessage only reads the nonce tracker: the counter, the used
\* set and lastUpdated are the same after the call as before it, for every message and
\* however much time has passed.
C17_ValidateMessageReadOnly ==
    [][lastOp'.name = "validateMessage" => nonceState' = nonceState]_vars

\* building again, right after the last create*Message call, with the arguments it had
BuiltAgain ==
    createTypedMessage(domain, nonceState, maxAge, now,
                       lastOp.kind, lastOp.nonce, lastOp.deadline).built.value

\* C18: building a message is pure: the create*Message methods leave the NonceManager as
\* it was, and a second build with the same arguments on the same factory yields the same
\* message.
C18_BuildingIsPure ==
    [][lastOp'.name = "createTyped"
         => /\ nonceState' = nonceState
            /\ BuiltAgain' = lastOp'.message]_vars

\* C18, amended: a create*Message call that is given its nonce leaves the NonceManager as
\* it was, and given its deadline too it builds the same message when repeated; a call
\* without a nonce takes generateNonce()'s next value, which advances the counter by one
\* and makes the repeated build differ in its nonce.
C18_PureWhenNonceGiven ==
    [][lastOp'.name = "createTyped"
         => /\ lastOp'.nonce.given
                 => /\ nonceState' = nonceState
                    /\ lastOp'.deadline.given => BuiltAgain' = lastOp'.message
            /\ ~lastOp'.nonce.given
                 => /\ nonceState'.current = nonceState.current + 1
                    /\ lastOp'.message.message.nonce = ToString(nonceState.current)
                    /\ BuiltAgain'.message.nonce = ToString(nonceState.current + 1)]_vars

\* a withdrawal built with nonce 1 and deadline 1 supplied, after a nonce was generated
C18_Witness ==
    /\ lastOp.name = "createTyped"
    /\ lastOp.kind = "Withdrawal"
    /\ lastOp.nonce = Given(1)
    /\ lastOp.deadline = Given(1)
    /\ lastOp.message.message.nonce = "1"
    /\ nonceState.current = 1
    /\ BuiltAgain = lastOp.message

\* the field names of a message's primary type, from its type schema
SchemaNames(m) ==
    {m.types[m.primaryType][i][1] : i \in 1..Len(m.types[m.primaryType])}

\* C19: every message built by createMessage for Deposit, Withdrawal, OrderSubmission or
\* OrderCancellation has its primaryType as a key of its type schema, and its field map
\* has a value under every field name the primary type's schema lists.
C19_FieldsCoverSchema ==
    (lastOp.name \in {"createMessage", "createTyped"} /\ lastOp.kind \in SignableKinds)
        => /\ ~lastOp.thrown
           /\ lastOp.message.primaryType = lastOp.kind
           /\ lastOp.message.primaryType \in DOMAIN lastOp.message.types
           /\ SchemaNames(lastOp.message) \subseteq DOMAIN lastOp.message.message

\* an order submission was built: nine schema fields, all of them in the field map
C19_Witness ==
    /\ lastOp.name = "createMessage"
    /\ lastOp.kind = "OrderSubmission"
    /\ ~lastOp.thrown
    /\ Cardinality(SchemaNames(lastOp.message)) = 9
    /\ lastOp.message.message.orderType = "limit"

\* C20: createMessage on an operation whose kind is none of the four signable kinds
\* (GetBalance, GetOrders, GetTrades, any other string) fails with the unknown-operation
\* error and returns no message.
C20_UnknownKindThrows ==
    (lastOp.name = "createMessage" /\ lastOp.kind \notin SignableKinds)
        => /\ lastOp.thrown
           /\ lastOp.error = "Unknown operation type"
           /\ lastOp.message = NoSignable

\* createMessage was called on a GetBalance operation and threw
C20_Witness ==
    /\ lastOp.name = "createMessage"
    /\ lastOp.kind = "GetBalance"
    /\ lastOp.thrown

----------------------------------------------------------------------------
(* Properties of the DomainConfig (SpecDomain) *)

\* C21: a DomainConfig's domain never changes after construction: whatever was done to the
\* DomainConfig before, getDomain() returns exactly the name, version, chainId and
\* verifyingContract given to the constructor.
C21_DomainNeverChanges ==
    lastOp.name = "getDomain" => Deref(returned[1]) = constructed

\* the domain objects that callers and built messages hold
Held == {returned[i] : i \in DOMAIN returned} \cup {built[i].domain : i \in DOMAIN built}

\* C22: getDomain() returns a fresh copy of the current domain: updateChainId(c) changes
\* the chainId that later getDomain() calls report and nothing else; domain objects
\* returned earlier and messages already built keep the chainId they were created with;
\* changing a returned domain object never changes the DomainConfig.
C22_GetDomainFreshCopy ==
    /\ [](\A o \in Held : Deref(o) = o.seen)
    /\ [][/\ lastOp'.name = "updateChainId"
               => domain' = [domain EXCEPT !.chainId = lastOp'.chainId]
          /\ lastOp'.name = "getDomain"
               => Deref(returned[1])' = domain
          /\ lastOp'.name \notin {"updateChainId", "updateVerifyingContract"}
               => domain' = domain]_vars

\* constructed on chain 1, a message built, then updateChainId(5): getDomain() reports 5,
\* the message still says 1
C22_Witness ==
    /\ lastOp.name = "getDomain"
    /\ constructed.chainId = 1
    /\ domain.chainId = 5
    /\ Deref(returned[1]) = domain
    /\ built # <<>>
    /\ Deref(built[1].domain).chainId = 1

----------------------------------------------------------------------------
(* Properties of the MetaMaskProvider (SpecMetaMask) *)

\* the backend was there and answered the account query with at least one account
BackendGaveAccount ==
    provider = Ethereum /\ walletOp.accounts.ok /\ Len(walletOp.accounts.value) >= 1

FailedNotConnected == walletOp.thrown /\ walletOp.error.name = "WalletConnectionError"

\* C29: disconnect() only clears the cached connection, and getConnection() and
\* signTypedData() answer from a fresh query of the backend whatever the cache holds;
\* signTypedData returns the signature of the first account the backend lists whenever
\* the backend lists one (and grants the signing request), also after connect() and
\* disconnect(), and fails with WalletConnectionError exactly when there is no backend or
\* the account query fails or lists no account.
C29_SignsWheneverBackendHasAccount ==
    /\ [](walletOp.name = "signTypedData"
            => /\ FailedNotConnected
                    <=> \/ provider = NoProvider
                        \/ ~walletOp.accounts.ok
                        \/ Len(walletOp.accounts.value) = 0
               /\ (BackendGaveAccount /\ walletOp.sign = "granted")
                    => /\ ~walletOp.thrown
                       /\ walletOp.signature
                             = Sig(walletOp.accounts.value[1].acct, TheMessage))
    /\ [][/\ provider' = provider
          /\ walletOp'.name = "disconnect" => connection' = <<>>
          /\ walletOp'.name \in {"getConnection", "signTypedData"}
               => connection' = connection]_vars

\* C29, amended: as above, with the chain id query counted among the fresh queries:
\* signTypedData returns the signature whenever the backend lists an account, answers
\* the chain id query and grants the signing request, and fails with
\* WalletConnectionError exactly when there is no backend, or the account query or the
\* chain id query fails, or no account is listed; a rejected signing request surfaces as
\* the backend's own error.
C29_SignsWheneverBackendAnswers ==
    /\ [](walletOp.name = "signTypedData"
            => /\ FailedNotConnected
                    <=> \/ provider = NoProvider
                        \/ ~walletOp.accounts.ok
                        \/ Len(walletOp.accounts.value) = 0
                        \/ ~walletOp.chain.ok
               /\ (BackendGaveAccount /\ walletOp.chain.ok)
                    => IF walletOp.sign = "granted"
                       THEN /\ ~walletOp.thrown
                            /\ walletOp.signature
                                  = Sig(walletOp.accounts.value[1].acct, TheMessage)
                       ELSE walletOp.thrown /\ walletOp.error = BackendError)
    /\ [](walletOp.name = "getConnection"
            => /\ ~walletOp.thrown
               /\ walletOp.conn # <<>> <=> (BackendGaveAccount /\ walletOp.chain.ok))
    /\ [][/\ provider' = provider
          /\ walletOp'.name = "disconnect" => connection' = <<>>
          /\ walletOp'.name \in {"getConnection", "signTypedData"}
               => connection' = connection]_vars

\* connect() succeeded, disconnect() cleared the cache, and signTypedData has returned a
\* signature of account 1 all the same
C29_Witness ==
    /\ walletLog = <<[name |-> "connect", thrown |-> FALSE],
                     [name |-> "disconnect", thrown |-> FALSE],
                     [name |-> "signTypedData", thrown |-> FALSE]>>
    /\ connection = <<>>
    /\ walletOp.signature = Sig(1, TheMessage)

====
